---- MODULE Spec2Model ----
(***************************************************************************)
(* Model of opencode_rlm/run.py: the plan -> patch -> validate loop        *)
(* (run_loop) and its helpers _extract_json, _apply_diffs and              *)
(* _run_validation.                                                        *)
(*                                                                         *)
(* Encoding of Python values:                                              *)
(*   - None is <<>>, any other value v of an optional slot is <<v>>;       *)
(*   - a dict is a record whose every modelled key is present and holds an *)
(*     optional value, so d.get(k) is d[k] and d.get(k) being None covers  *)
(*     the absent key; a dict is empty when every key is None;             *)
(*   - a str whose content matters is a sequence of one-character strings; *)
(*   - a text handed to _extract_json is a sequence of lexemes: "{", "}",  *)
(*     "fence" (three backticks), "json" (that word), " " (a whitespace   *)
(*     character), "\"" (a double quote) and "x" (any other character).    *)
(***************************************************************************)
EXTENDS Integers, Sequences, FiniteSets, TLC

(* ------------------------------ bounds --------------------------------- *)

\* longest milestone list a plan response carries
MaxMilestones == 2
\* largest max_iterations argument
MaxIter == 2
\* longest diffs list handed to _apply_diffs on its own
MaxDiffs == 2
\* longest command list handed to _run_validation on its own
MaxCmds == 2
\* longest text, in lexemes, of the texts taken lexeme by lexeme
MaxText == 4

(* ------------------------- Python value helpers ------------------------ *)

None == <<>>

Some(v) == <<v>>

\* d.get(k, default) for an optional slot
GetOr(slot, default) == IF slot = None THEN default ELSE slot[1]

\* truthiness of an optional slot holding a str ("" and None are falsy)
TruthyStr(slot) == slot # None /\ slot[1] # ""

\* truthiness of an optional slot holding a list ([] and None are falsy)
TruthyList(slot) == slot # None /\ slot[1] # <<>>

\* `not d` for a dict: True exactly for the dict without keys
IsEmptyDict(d) == \A k \in DOMAIN d : d[k] = None

Range(s) == {s[i] : i \in 1..Len(s)}

SeqsUpTo(S, n) == UNION {[1..k -> S] : k \in 0..n}

Max(a, b) == IF a >= b THEN a ELSE b

\* least element of a non-empty set of integers
SetMin(S) == CHOOSE x \in S : \A y \in S : x <= y

(* ------------------------------ _extract_json -------------------------- *)

\* t.lstrip()
RECURSIVE LStrip(_)
LStrip(t) == IF t # <<>> /\ Head(t) = " " THEN LStrip(Tail(t)) ELSE t

\* t.rstrip()
RECURSIVE RStrip(_)
RStrip(t) ==
    IF t # <<>> /\ t[Len(t)] = " " THEN RStrip(SubSeq(t, 1, Len(t) - 1)) ELSE t

\* t.strip()
Strip(t) == RStrip(LStrip(t))

\* \s* from position i on: the first position that holds no whitespace
RECURSIVE SkipSpace(_, _)
SkipSpace(t, i) == IF i <= Len(t) /\ t[i] = " " THEN SkipSpace(t, i + 1) ELSE i

\* ```(?:json)?\s* with its fence at p: where group 1 has to start
GroupStart(t, p) ==
    SkipSpace(t, IF p + 1 <= Len(t) /\ t[p + 1] = "json" THEN p + 2 ELSE p + 1)

\* \}\s*``` : the "}" at e is followed by whitespace and a fence
ClosesGroup(t, e) ==
    /\ t[e] = "}"
    /\ LET f == SkipSpace(t, e + 1) IN f <= Len(t) /\ t[f] = "fence"

\* the positions at which group 1 of a match with its fence at p can end
GroupEnds(t, p) == {e \in (GroupStart(t, p) + 1)..Len(t) : ClosesGroup(t, e)}

\* the pattern matches with its fence at p
MatchesAt(t, p) ==
    /\ t[p] = "fence"
    /\ GroupStart(t, p) <= Len(t)
    /\ t[GroupStart(t, p)] = "{"
    /\ GroupEnds(t, p) # {}

\* re.search(r"```(?:json)?\s*(\{[\s\S]*?\})\s*```", t): group 1 of the
\* leftmost match, the lazy quantifier stopping at the nearest end; None
\* without a match
FenceSearch(t) ==
    LET ps == {p \in 1..Len(t) : MatchesAt(t, p)}
    IN IF ps = {} THEN None
       ELSE LET p == SetMin(ps)
            IN Some(SubSeq(t, GroupStart(t, p), SetMin(GroupEnds(t, p))))

\* t.rfind(ch), 0 standing for -1
FindLast(t, ch) ==
    LET S == {i \in 1..Len(t) : t[i] = ch}
    IN IF S = {} THEN 0 ELSE CHOOSE x \in S : \A y \in S : y <= x

\* t.find(ch), 0 standing for -1
Find(t, ch) ==
    LET S == {i \in 1..Len(t) : t[i] = ch} IN IF S = {} THEN 0 ELSE SetMin(S)

\* the `for i in range(start, len(text))` loop from position i on with the
\* depth reached so far: the position of the "}" that takes the depth back
\* to 0, or 0 when the loop ends without one
RECURSIVE ScanFrom(_, _, _)
ScanFrom(t, i, depth) ==
    IF i > Len(t) THEN 0
    ELSE IF t[i] = "{" THEN ScanFrom(t, i + 1, depth + 1)
    ELSE IF t[i] = "}"
         THEN IF depth - 1 = 0 THEN i ELSE ScanFrom(t, i + 1, depth - 1)
         ELSE ScanFrom(t, i + 1, depth)

\* position of the next double quote at or after i, 0 if there is none
NextQuote(t, i) ==
    LET S == {k \in i..Len(t) : t[k] = "\""} IN IF S = {} THEN 0 ELSE SetMin(S)

\* the JSON decoder inside an object, at position i and nesting depth d, acc
\* being what has been decoded.  "x" stands for well-formed member text
\* (keys, colons, commas, numbers); a string runs from a double quote to the
\* next one and may hold anything; whitespace between members is dropped; a
\* fence or a bare word between members, an unclosed string or object, and
\* text after the closing brace are JSONDecodeErrors (None).
RECURSIVE DecodeFrom(_, _, _, _)
DecodeFrom(c, i, d, acc) ==
    IF i > Len(c) THEN None
    ELSE IF c[i] = "{" THEN DecodeFrom(c, i + 1, d + 1, Append(acc, "{"))
    ELSE IF c[i] = "}"
         THEN IF d = 1
              THEN IF i = Len(c) THEN Some(Append(acc, "}")) ELSE None
              ELSE DecodeFrom(c, i + 1, d - 1, Append(acc, "}"))
    ELSE IF c[i] = " " THEN DecodeFrom(c, i + 1, d, acc)
    ELSE IF c[i] = "x" THEN DecodeFrom(c, i + 1, d, Append(acc, "x"))
    ELSE IF c[i] = "\""
         THEN LET k == NextQuote(c, i + 1)
              IN IF k = 0 THEN None
                 ELSE DecodeFrom(c, k + 1, d, acc \o SubSeq(c, i, k))
    ELSE None

\* json.loads(c) for a c that starts with "{": the decoded object, written
\* as its lexemes without the whitespace between members, or None for a
\* JSONDecodeError
JsonLoads(c) ==
    IF c = <<>> \/ c[1] # "{" THEN None ELSE DecodeFrom(c, 2, 1, <<"{">>)

\* _extract_json(text): the substring handed to json.loads, if any, and
\* the value returned
ExtractJson(text) ==
    LET stripped == Strip(text)
        match == IF "fence" \in Range(stripped) THEN FenceSearch(stripped)
                 ELSE None
        t == IF match # None THEN match[1] ELSE stripped
        start == Find(t, "{")
        end == IF start = 0 THEN 0 ELSE ScanFrom(t, start, 0)
        candidate == IF end = 0 THEN None ELSE Some(SubSeq(t, start, end))
    IN [candidate |-> candidate,
        value |-> IF candidate = None THEN None ELSE JsonLoads(candidate[1])]

(* ------------------------------ _apply_diffs --------------------------- *)

\* what one run of patch(1) on one item can do: exit 0, exit non-zero,
\* exceed the 30 s timeout, or fail to start because the tool is missing
ToolOutcomes == {"exit0", "exit1", "TimeoutExpired", "FileNotFoundError"}

\* the `if not path or not unified_diff: continue` test of one item
ItemSkipped(item) == ~TruthyStr(item.path) \/ ~TruthyStr(item.unified_diff)

\* ApplyFrom with a failing patch(1) run ending the batch
RECURSIVE ApplyFromStops(_, _, _, _)
ApplyFromStops(diffs, tool, i, changed) ==
    IF i > Len(diffs) THEN changed
    ELSE IF ItemSkipped(diffs[i]) THEN ApplyFromStops(diffs, tool, i + 1, changed)
    ELSE IF tool[i] = "exit0"
         THEN ApplyFromStops(diffs, tool, i + 1, Append(changed, diffs[i].path[1]))
         ELSE changed

\* the loop body from item i on; tool[i] is what patch(1) does on item i
RECURSIVE ApplyFrom(_, _, _, _)
ApplyFrom(diffs, tool, i, changed) ==
    IF i > Len(diffs) THEN changed
    ELSE IF ItemSkipped(diffs[i]) THEN ApplyFrom(diffs, tool, i + 1, changed)
    ELSE IF tool[i] = "exit0"
         THEN ApplyFrom(diffs, tool, i + 1, Append(changed, diffs[i].path[1]))
         ELSE ApplyFrom(diffs, tool, i + 1, changed)

\* _apply_diffs(repo_root, diffs)
ApplyDiffs(diffs, tool) == ApplyFrom(diffs, tool, 1, <<>>)

(* ----------------------------- _run_validation ------------------------- *)

\* out[-2048:], log_excerpt[:2048]
LogLimit == 2048

\* "... (truncated)\n"
TruncatedMarker == <<".", ".", ".", " ", "(", "t", "r", "u", "n", "c", "a", "t", "e", "d", ")", "\n">>

\* "(command timed out)"
TimedOutExcerpt == <<"(", "c", "o", "m", "m", "a", "n", "d", " ", "t", "i", "m", "e", "d", " ", "o", "u", "t", ")">>

\* "Command timed out."
TimedOutSummary == <<"C", "o", "m", "m", "a", "n", "d", " ", "t", "i", "m", "e", "d", " ", "o", "u", "t", ".">>

\* f"Exit code {proc.returncode}"
ExitCodeSummary(rc) == <<"E", "x", "i", "t", " ", "c", "o", "d", "e", " ">> \o <<<<"0", "1", "2">>[rc + 1]>>

\* s[-n:]
LastChars(s, n) == IF Len(s) > n THEN SubSeq(s, Len(s) - n + 1, Len(s)) ELSE s

\* s[:n]
FirstChars(s, n) == IF Len(s) > n THEN SubSeq(s, 1, n) ELSE s

\* PerCmdTimeout with the quotient rounded up
PerCmdTimeoutCeil(commands, budget_seconds) ==
    IF commands # <<>>
    THEN Max(10, (budget_seconds + Len(commands) - 1) \div Len(commands))
    ELSE 60

\* PerCmdTimeout with the whole budget given to every command
PerCmdTimeoutWholeBudget(commands, budget_seconds) ==
    IF commands # <<>> THEN Max(10, budget_seconds) ELSE 60

\* per_cmd_timeout of a command list under a budget
PerCmdTimeout(commands, budget_seconds) ==
    IF commands # <<>> THEN Max(10, budget_seconds \div Len(commands)) ELSE 60

\* subprocess.run(..., timeout=t) raises TimeoutExpired when the command
\* has not finished after t seconds
TimesOut(beh, per_cmd_timeout) == beh.duration > per_cmd_timeout

\* LogExcerpt with the marker put before every shortened output, whatever
\* the exit status
LogExcerptMarksAll(beh) ==
    LET out == beh.out
        tail == IF Len(out) > LogLimit THEN LastChars(out, LogLimit) ELSE out
        log_excerpt == IF Len(out) > LogLimit
                       THEN TruncatedMarker \o tail ELSE tail
    IN FirstChars(log_excerpt, LogLimit)

\* LogExcerpt without the final cut to LogLimit characters
LogExcerptUncut(beh) ==
    LET out == beh.out
        tail == IF Len(out) > LogLimit THEN LastChars(out, LogLimit) ELSE out
    IN IF beh.returncode # 0 /\ Len(out) > LogLimit
       THEN TruncatedMarker \o tail ELSE tail

\* the log_excerpt stored for a finished command
LogExcerpt(beh) ==
    LET out == beh.out
        tail == IF Len(out) > LogLimit THEN LastChars(out, LogLimit) ELSE out
        log_excerpt == IF beh.returncode # 0 /\ Len(out) > LogLimit
                       THEN TruncatedMarker \o tail ELSE tail
    IN FirstChars(log_excerpt, LogLimit)

\* the record appended to results for one command
CommandResult(cmd, beh, per_cmd_timeout) ==
    IF TimesOut(beh, per_cmd_timeout)
    THEN [command |-> cmd, pass |-> FALSE, exit_code |-> None,
          log_excerpt |-> TimedOutExcerpt,
          failure_summary |-> Some(TimedOutSummary)]
    ELSE [command |-> cmd, pass |-> beh.returncode = 0,
          exit_code |-> Some(beh.returncode),
          log_excerpt |-> LogExcerpt(beh),
          failure_summary |-> IF beh.returncode = 0 THEN None
                              ELSE Some(ExitCodeSummary(beh.returncode))]

\* ValidateFrom with the loop left after the first command that did not pass
RECURSIVE ValidateFromFailFast(_, _, _, _, _)
ValidateFromFailFast(commands, behs, per_cmd_timeout, i, results) ==
    IF i > Len(commands) THEN results
    ELSE LET r == CommandResult(commands[i], behs[i], per_cmd_timeout)
         IN IF r.pass
            THEN ValidateFromFailFast(commands, behs, per_cmd_timeout, i + 1,
                                      Append(results, r))
            ELSE Append(results, r)

\* the `for cmd in commands` loop from command i on
RECURSIVE ValidateFrom(_, _, _, _, _)
ValidateFrom(commands, behs, per_cmd_timeout, i, results) ==
    IF i > Len(commands) THEN results
    ELSE ValidateFrom(commands, behs, per_cmd_timeout, i + 1,
             Append(results, CommandResult(commands[i], behs[i], per_cmd_timeout)))

\* any(r["pass"] for r in results)
AnyPass(results) == \E i \in 1..Len(results) : results[i].pass

\* all(r["pass"] for r in results)
AllPass(results) == \A i \in 1..Len(results) : results[i].pass

\* _run_validation(repo_root, commands, budget_seconds); behs[i] is what
\* command i does when run
RunValidation(commands, behs, budget_seconds) ==
    LET per_cmd_timeout == PerCmdTimeout(commands, budget_seconds)
        results == ValidateFrom(commands, behs, per_cmd_timeout, 1, <<>>)
        overall == AllPass(results)
    IN [overall |-> overall,
        results |-> results,
        suggested |-> IF ~overall /\ results # <<>> THEN "fix" ELSE "done",
        snippet_ids |-> <<>>]

(* -------------------------------- run_loop ----------------------------- *)

\* the goal argument
Goal == "goal"

\* _default_validate_commands(repo_root) for a repository without a
\* lockfile or pyproject.toml
DefaultValidateCommands == <<"true">>

\* the milestone substituted when the plan has none
SyntheticMilestone ==
    [id |-> Some("m1"), title |-> Some("Implement"), order |-> Some(1),
     scope_summary |-> Some(Goal)]

\* m.get("order", 0)
OrderKey(m) == GetOr(m.order, 0)

\* insert m behind every element whose key is not larger: with the
\* elements inserted left to right this is the stable sort sorted() does
RECURSIVE InsertByOrder(_, _)
InsertByOrder(m, s) ==
    IF s = <<>> THEN <<m>>
    ELSE IF OrderKey(m) < OrderKey(s[1]) THEN <<m>> \o s
    ELSE <<s[1]>> \o InsertByOrder(m, Tail(s))

\* the milestones taken in the order the plan lists them
PlanOrder(ms) == ms

\* sorted(milestones, key=lambda m: m.get("order", 0))
RECURSIVE SortedByOrder(_)
SortedByOrder(ms) ==
    IF ms = <<>> THEN <<>>
    ELSE InsertByOrder(ms[Len(ms)], SortedByOrder(SubSeq(ms, 1, Len(ms) - 1)))

\* milestone.get("id") or f"m{milestone.get('order', 0)}"
ScopeId(m) ==
    IF TruthyStr(m.id) THEN m.id[1] ELSE <<"m-1", "m0", "m1">>[OrderKey(m) + 2]

\* milestone.get("scope_summary") or milestone.get("title") or milestone.get("id")
Scope(m) ==
    IF TruthyStr(m.scope_summary) THEN m.scope_summary
    ELSE IF TruthyStr(m.title) THEN m.title
    ELSE m.id

\* list(dict.fromkeys(xs)): every element once, in first-seen order
RECURSIVE DedupFrom(_, _, _)
DedupFrom(xs, i, acc) ==
    IF i > Len(xs) THEN acc
    ELSE DedupFrom(xs, i + 1,
             IF xs[i] \in Range(acc) THEN acc ELSE Append(acc, xs[i]))

\* the list handed on as it is
NoDedup(xs) == xs

Dedup(xs) == DedupFrom(xs, 1, <<>>)

(* --------------------- what the collaborators can return --------------- *)

\* order values a plan gives a milestone
Orders == {0, 1}

\* ids of the milestones of a plan, by position
MilestoneIds == <<"p1", "p2", "p3", "p4">>

\* the milestone lists of a plan response: item i has id MilestoneIds[i]
\* and an order that is absent or one of Orders
MilestoneLists ==
    {[i \in DOMAIN f |-> [id |-> Some(MilestoneIds[i]), title |-> None,
                          order |-> f[i], scope_summary |-> None]] :
        f \in SeqsUpTo({None} \cup {Some(o) : o \in Orders}, MaxMilestones)}

\* the values the `error` key of a response object takes
ErrorSlots == {None, Some(""), Some("reason")}

\* _extract_json(response_text) of a planning response: None or a dict with
\* the keys plan_id, error and milestones, each possibly absent
PlanExtractions ==
    {None} \cup
    {Some([plan_id |-> p, error |-> e, milestones |-> m]) :
        p \in {None, Some("plan-1")}, e \in ErrorSlots,
        m \in {None} \cup {Some(ms) : ms \in MilestoneLists}}

\* an entry of a diffs list for the file at path p
DiffFor(p) == [path |-> Some(p), unified_diff |-> Some("@@")]

\* the diffs lists of the patch responses inside run_loop
LoopDiffLists ==
    {<<>>, <<DiffFor("a")>>, <<DiffFor("b")>>, <<DiffFor("a"), DiffFor("b")>>}

\* _extract_json(patch_response): None or a dict with the keys summary,
\* error and diffs, each possibly absent
PatchExtractions ==
    {None} \cup
    {Some([summary |-> s, error |-> e, diffs |-> d]) :
        s \in {None, Some("s")}, e \in ErrorSlots,
        d \in {None} \cup {Some(ds) : ds \in LoopDiffLists}}

\* the entries of a diffs list handed to _apply_diffs on its own
DiffItems ==
    {[path |-> p, unified_diff |-> u] :
        p \in {None, Some(""), Some("a"), Some("b")},
        u \in {None, Some(""), Some("@@")}}

\* combined stdout+stderr of n characters
OutOfLen(n) == [i \in 1..n |-> IF i = n THEN "$" ELSE IF i = 1 THEN "^" ELSE "x"]

\* what a verification command does inside run_loop
LoopBehaviours ==
    {[duration |-> d, returncode |-> rc, out |-> OutOfLen(1)] :
        d \in {1, 200}, rc \in {0, 1}}

\* what a verification command does when _run_validation is run on its own
Behaviours ==
    {[duration |-> d, returncode |-> rc, out |-> OutOfLen(n)] :
        d \in {1, 30, 200}, rc \in {0, 1, 2}, n \in {0, 3, LogLimit, LogLimit + 1}}

\* budget_seconds arguments
Budgets == {0, 25, 50, 120}

\* command strings, by position in the list
CommandNames == <<"c1", "c2", "c3", "c4">>

\* the command lists handed to _run_validation on its own
CommandLists == {SubSeq(CommandNames, 1, k) : k \in 0..MaxCmds}

\* validate_commands_override arguments
Overrides == {None, Some(<<"c1">>)}

\* the lexemes of a text
Lexemes == {"{", "}", "fence", "json", " ", "\"", "x"}

\* prose without braces, with and without fences
Proses ==
    {<<>>, <<"x", " ">>, <<" ", "x">>, <<"fence">>, <<"fence", "json", " ">>,
     <<" ", "fence">>, <<"fence", "x", "fence", " ">>, <<"fence", "x", " ">>}

\* balanced {...} regions: {}, {"a":1}, { "a":1 }, {"a":{"b":1}},
\* {"a":"v"}, {"a":"```v```"} and {"a":"```{}```"}
Regions ==
    {<<"{", "}">>,
     <<"{", "x", "}">>,
     <<"{", " ", "x", " ", "}">>,
     <<"{", "x", "{", "x", "}", "}">>,
     <<"{", "x", "\"", "x", "\"", "}">>,
     <<"{", "x", "\"", "fence", "x", "fence", "\"", "}">>,
     <<"{", "x", "\"", "fence", "{", "}", "fence", "\"", "}">>}

\* the texts handed to _extract_json: every text of at most MaxText
\* lexemes, and every region between two proses
Texts ==
    SeqsUpTo(Lexemes, MaxText) \cup
    {a \o r \o b : a \in Proses, r \in Regions, b \in Proses}

(* --------------------------------- state ------------------------------- *)

VARIABLES
    pc,                        \* where run_loop (or the helper under test) is
    max_iterations,            \* argument of run_loop
    validate_commands_override,\* argument of run_loop
    plan_id,                   \* run_loop local
    milestones,                \* run_loop local: the plan's list, unsorted
    ordered,                   \* the list sorted(milestones, ...) iterates
    mi,                        \* position of `milestone` in ordered, 0 before the first
    attempt,                   \* values of range(max_iterations) consumed for this milestone
    iterations,                \* run_loop local: the global attempt counter
    validate_commands,         \* run_loop local / _run_validation argument
    diffs,                     \* run_loop local / _apply_diffs argument
    changed,                   \* what _apply_diffs returned when run on its own
    all_changed_files,         \* run_loop local
    overall_pass,              \* _run_validation()[0]
    results,                   \* _run_validation()[1] when run on its own
    suggested,                 \* _run_validation()[2]
    result,                    \* what run_loop returned, None while it runs
    tool,                      \* _apply_diffs on its own: what patch(1) does on each item
    behs,                      \* _run_validation on its own: what each command does
    budget_seconds,            \* _run_validation on its own: its budget argument
    per_cmd_timeout,           \* _run_validation on its own: its local, 0 before the call
    text,                      \* _extract_json on its own: its argument
    candidate,                 \* _extract_json on its own: what json.loads was given
    extracted,                 \* _extract_json on its own: what it returned
    calls,                     \* how often each collaborator has been called
    attemptLog,                \* scope ids of the patch requests sent, in order
    applied                    \* the paths the _apply_diffs calls returned, in order

vars == <<pc, max_iterations, validate_commands_override, plan_id, milestones,
          ordered, mi, attempt, iterations, validate_commands, diffs, changed,
          all_changed_files, overall_pass, results, suggested, result, tool,
          behs, budget_seconds, per_cmd_timeout, text, candidate, extracted,
          calls, attemptLog, applied>>

loopLocals == <<plan_id, milestones, ordered, mi, attempt, iterations,
                validate_commands, all_changed_files>>

applyVars == <<diffs, changed, tool>>

validationVars == <<overall_pass, results, suggested, behs, budget_seconds,
                    per_cmd_timeout>>

extractVars == <<text, candidate, extracted>>

arguments == <<max_iterations, validate_commands_override>>

history == <<attemptLog, applied>>

\* the values the locals have before they are first assigned
Unassigned ==
    /\ plan_id = None
    /\ milestones = <<>>
    /\ ordered = <<>>
    /\ mi = 0
    /\ attempt = 0
    /\ iterations = 0
    /\ validate_commands = <<>>
    /\ diffs = <<>>
    /\ changed = <<>>
    /\ all_changed_files = <<>>
    /\ overall_pass = FALSE
    /\ results = <<>>
    /\ suggested = "done"
    /\ result = None
    /\ tool = <<>>
    /\ behs = <<>>
    /\ budget_seconds = 120
    /\ per_cmd_timeout = 0
    /\ text = <<>>
    /\ candidate = None
    /\ extracted = None
    /\ calls = [plan |-> 0, patch |-> 0, apply |-> 0, verify |-> 0]
    /\ attemptLog = <<>>
    /\ applied = <<>>

\* run_loop is called with some max_iterations and some override
Init ==
    /\ pc = "START"
    /\ max_iterations \in 0..MaxIter
    /\ validate_commands_override \in Overrides
    /\ Unassigned

\* the milestone the outer for loop is at
milestone == ordered[mi]

\* count one more call of collaborator c
Called(c) == [calls EXCEPT ![c] = @ + 1]

\* `from rlm import RLM`: the import fails and run_loop returns an error,
\* or it succeeds and the planning prompt is built
ImportRLM ==
    /\ pc = "START"
    /\ \/ /\ result' = [error |-> "rlms not installed"]
          /\ pc' = "ABORTED"
       \/ /\ pc' = "PLANNING"
          /\ UNCHANGED result
    /\ UNCHANGED <<extractVars, arguments, loopLocals, applyVars, validationVars, calls,
                   history>>

\* the planning request raises
PlanRequestFails ==
    /\ pc = "PLANNING"
    /\ calls' = Called("plan")
    /\ result' = [error |-> "Plan step failed"]
    /\ pc' = "ABORTED"
    /\ UNCHANGED <<extractVars, arguments, loopLocals, applyVars, validationVars, history>>

\* the planning request returns text that _extract_json turns into `ext`
Plan(ext) ==
    /\ pc = "PLANNING"
    /\ calls' = Called("plan")
    /\ IF ext = None \/ IsEmptyDict(ext[1]) \/ TruthyStr(ext[1].error)
       THEN /\ result' = [error |-> "Plan step did not return valid JSON"]
            /\ pc' = "ABORTED"
            /\ UNCHANGED loopLocals
       ELSE LET plan == ext[1]
                ms == IF TruthyList(plan.milestones) THEN plan.milestones[1]
                      ELSE <<SyntheticMilestone>>
            IN /\ plan_id' = IF TruthyStr(plan.plan_id) THEN plan.plan_id
                             ELSE Some("plan-1")
               /\ milestones' = ms
               /\ validate_commands' =
                      IF TruthyList(validate_commands_override)
                      THEN validate_commands_override[1]
                      ELSE DefaultValidateCommands
               /\ all_changed_files' = <<>>
               /\ iterations' = 0
               /\ ordered' = SortedByOrder(ms)
               /\ mi' = 0
               /\ attempt' = 0
               /\ pc' = "MILESTONE_ITERATION"
               /\ UNCHANGED result
    /\ UNCHANGED <<extractVars, arguments, applyVars, validationVars, history>>

\* the outer for loop takes the next milestone
NextMilestone ==
    /\ pc = "MILESTONE_ITERATION"
    /\ mi < Len(ordered)
    /\ mi' = mi + 1
    /\ attempt' = 0
    /\ pc' = "ATTEMPT"
    /\ UNCHANGED <<extractVars, arguments, plan_id, milestones, ordered, iterations,
                   validate_commands, all_changed_files, applyVars,
                   validationVars, result, calls, history>>

\* BeginAttempt as a loop that tests the budget before it counts the attempt
\* and retries the test instead of leaving the loop
BeginAttemptSpins ==
    /\ pc = "ATTEMPT"
    /\ IF attempt >= max_iterations
       THEN /\ pc' = "MILESTONE_ITERATION"
            /\ UNCHANGED <<attempt, iterations>>
       ELSE IF iterations >= max_iterations
            THEN UNCHANGED <<pc, attempt, iterations>>
            ELSE /\ attempt' = attempt + 1
                 /\ iterations' = iterations + 1
                 /\ pc' = "PATCH"
    /\ UNCHANGED <<extractVars, arguments, plan_id, milestones, ordered, mi,
                   validate_commands, all_changed_files, applyVars,
                   validationVars, result, calls, history>>

\* BeginAttempt with a budget per milestone: the global count is kept but
\* never tested
BeginAttemptPerMilestone ==
    /\ pc = "ATTEMPT"
    /\ IF attempt >= max_iterations
       THEN /\ pc' = "MILESTONE_ITERATION"
            /\ UNCHANGED <<attempt, iterations>>
       ELSE /\ attempt' = attempt + 1
            /\ iterations' = iterations + 1
            /\ pc' = "PATCH"
    /\ UNCHANGED <<extractVars, arguments, plan_id, milestones, ordered, mi,
                   validate_commands, all_changed_files, applyVars,
                   validationVars, result, calls, history>>

\* the inner for loop takes the next value of range(max_iterations), counts
\* it in iterations and breaks when the global count is used up
BeginAttempt ==
    /\ pc = "ATTEMPT"
    /\ IF attempt >= max_iterations
       THEN /\ pc' = "MILESTONE_ITERATION"
            /\ UNCHANGED <<attempt, iterations>>
       ELSE /\ attempt' = attempt + 1
            /\ iterations' = iterations + 1
            /\ pc' = IF iterations' > max_iterations
                     THEN "MILESTONE_ITERATION" ELSE "PATCH"
    /\ UNCHANGED <<extractVars, arguments, plan_id, milestones, ordered, mi,
                   validate_commands, all_changed_files, applyVars,
                   validationVars, result, calls, history>>

\* PatchRequestFails with the exception recorded and the attempt skipped
PatchRequestFailsContinues ==
    /\ pc = "PATCH"
    /\ calls' = Called("patch")
    /\ attemptLog' = Append(attemptLog, ScopeId(milestone))
    /\ result' = [error |-> "Patch step failed", milestone |-> ScopeId(milestone)]
    /\ pc' = "ATTEMPT"
    /\ UNCHANGED <<extractVars, arguments, loopLocals, applyVars, validationVars, applied>>

\* the patch request raises
PatchRequestFails ==
    /\ pc = "PATCH"
    /\ calls' = Called("patch")
    /\ attemptLog' = Append(attemptLog, ScopeId(milestone))
    /\ result' = [error |-> "Patch step failed", milestone |-> ScopeId(milestone)]
    /\ pc' = "ABORTED"
    /\ UNCHANGED <<extractVars, arguments, loopLocals, applyVars, validationVars, applied>>

\* Patch with an unusable response ending the attempts of the milestone
PatchSkipEndsMilestone(ext) ==
    /\ pc = "PATCH"
    /\ calls' = Called("patch")
    /\ attemptLog' = Append(attemptLog, ScopeId(milestone))
    /\ IF ext = None \/ IsEmptyDict(ext[1]) \/ TruthyStr(ext[1].error)
       THEN /\ pc' = "MILESTONE_ITERATION"
            /\ UNCHANGED diffs
       ELSE /\ diffs' = IF TruthyList(ext[1].diffs) THEN ext[1].diffs[1] ELSE <<>>
            /\ pc' = IF diffs' = <<>> THEN "MILESTONE_ITERATION" ELSE "APPLY"
    /\ UNCHANGED <<extractVars, arguments, loopLocals, changed, tool,
                   validationVars, result, applied>>

\* the patch request returns text that _extract_json turns into `ext`
Patch(ext) ==
    /\ pc = "PATCH"
    /\ calls' = Called("patch")
    /\ attemptLog' = Append(attemptLog, ScopeId(milestone))
    /\ IF ext = None \/ IsEmptyDict(ext[1]) \/ TruthyStr(ext[1].error)
       THEN /\ pc' = "ATTEMPT"
            /\ UNCHANGED diffs
       ELSE /\ diffs' = IF TruthyList(ext[1].diffs) THEN ext[1].diffs[1] ELSE <<>>
            /\ pc' = IF diffs' = <<>> THEN "MILESTONE_ITERATION" ELSE "APPLY"
    /\ UNCHANGED <<extractVars, arguments, loopLocals, changed, tool, validationVars, result,
                   applied>>

\* changed = _apply_diffs(repo_root, diffs); all_changed_files.extend(changed),
\* where patch(1) does t[i] on item i.  Neither changed nor diffs is read
\* again before it is reassigned, so the state does not keep them.
Apply(t) ==
    /\ pc = "APPLY"
    /\ calls' = Called("apply")
    /\ LET ch == ApplyDiffs(diffs, t)
       IN /\ all_changed_files' = all_changed_files \o ch
          /\ applied' = applied \o ch
    /\ pc' = "VALIDATE"
    /\ diffs' = <<>>
    /\ UNCHANGED <<extractVars, arguments, plan_id, milestones, ordered, mi, attempt,
                   iterations, validate_commands, changed, tool, validationVars,
                   result, attemptLog>>

\* Validate with a failed verification ending the attempts of the milestone
ValidateFailEndsMilestone(b) ==
    /\ pc = "VALIDATE"
    /\ calls' = Called("verify")
    /\ LET v == RunValidation(validate_commands, b, 120)
       IN /\ overall_pass' = v.overall
          /\ suggested' = v.suggested
          /\ UNCHANGED results
          /\ pc' = "MILESTONE_ITERATION"
    /\ UNCHANGED <<extractVars, arguments, loopLocals, applyVars, behs,
                   budget_seconds, per_cmd_timeout, result, history>>

\* _run_validation(repo_root, validate_commands, budget_seconds=120), where
\* command i does b[i], and the decision taken on what it returns.  The
\* returned results list is never read by run_loop, so the state does not
\* keep it.
Validate(b) ==
    /\ pc = "VALIDATE"
    /\ calls' = Called("verify")
    /\ LET v == RunValidation(validate_commands, b, 120)
       IN /\ overall_pass' = v.overall
          /\ suggested' = v.suggested
          /\ UNCHANGED results
          /\ pc' = IF v.overall THEN "MILESTONE_ITERATION"
                   ELSE IF v.suggested = "done" \/ v.suggested = "adjust_tests"
                        THEN "MILESTONE_ITERATION"
                        ELSE "ATTEMPT"
    /\ UNCHANGED <<extractVars, arguments, loopLocals, applyVars, behs, budget_seconds,
                   per_cmd_timeout, result, history>>

\* Finish with a run whose last verification failed reported as an error
FinishFailsUnverified ==
    /\ pc = "MILESTONE_ITERATION"
    /\ mi = Len(ordered)
    /\ result' = IF calls.verify > 0 /\ ~overall_pass
                 THEN [error |-> "Verification failed"]
                 ELSE [summary |-> <<"RLM run completed for goal: ", Goal>>,
                       plan_id |-> plan_id[1],
                       acceptance_criteria |-> <<>>,
                       test_strategy |-> "Run lint and tests.",
                       file_list |-> Dedup(all_changed_files),
                       tests_run |-> validate_commands,
                       known_limitations |-> <<>>,
                       follow_ups |-> <<>>]
    /\ pc' = "DONE"
    /\ UNCHANGED <<extractVars, arguments, loopLocals, applyVars, validationVars, calls,
                   history>>

\* the outer loop is over: the final summary is returned
Finish ==
    /\ pc = "MILESTONE_ITERATION"
    /\ mi = Len(ordered)
    /\ result' = [summary |-> <<"RLM run completed for goal: ", Goal>>,
                  plan_id |-> plan_id[1],
                  acceptance_criteria |-> <<>>,
                  test_strategy |-> "Run lint and tests.",
                  file_list |-> Dedup(all_changed_files),
                  tests_run |-> validate_commands,
                  known_limitations |-> <<>>,
                  follow_ups |-> <<>>]
    /\ pc' = "DONE"
    /\ UNCHANGED <<extractVars, arguments, loopLocals, applyVars, validationVars, calls,
                   history>>

Next ==
    \/ ImportRLM
    \/ PlanRequestFails
    \/ \E ext \in PlanExtractions : Plan(ext)
    \/ NextMilestone
    \/ BeginAttempt
    \/ PatchRequestFails
    \/ \E ext \in PatchExtractions : Patch(ext)
    \/ \E t \in [1..Len(diffs) -> ToolOutcomes] : Apply(t)
    \/ \E b \in [1..Len(validate_commands) -> LoopBehaviours] : Validate(b)
    \/ Finish

Spec == Init /\ [][Next]_vars

\* every provider call and every child process returns, and the interpreter
\* keeps running the loop
FairSpec == Spec /\ WF_vars(Next)

(* ------------------------ _apply_diffs on its own ---------------------- *)

\* _apply_diffs is about to be called with some diffs list, on a tree where
\* patch(1) will do tool[i] on item i
ApplyInit ==
    /\ pc = "APPLY_DIFFS"
    /\ max_iterations = 0
    /\ validate_commands_override = None
    /\ plan_id = None
    /\ milestones = <<>>
    /\ ordered = <<>>
    /\ mi = 0
    /\ attempt = 0
    /\ iterations = 0
    /\ validate_commands = <<>>
    /\ diffs \in SeqsUpTo(DiffItems, MaxDiffs)
    /\ tool \in [1..Len(diffs) -> ToolOutcomes]
    /\ changed = <<>>
    /\ all_changed_files = <<>>
    /\ overall_pass = FALSE
    /\ results = <<>>
    /\ suggested = "done"
    /\ result = None
    /\ behs = <<>>
    /\ budget_seconds = 120
    /\ per_cmd_timeout = 0
    /\ text = <<>>
    /\ candidate = None
    /\ extracted = None
    /\ calls = [plan |-> 0, patch |-> 0, apply |-> 0, verify |-> 0]
    /\ attemptLog = <<>>
    /\ applied = <<>>

\* the call returns
CallApplyDiffs ==
    /\ pc = "APPLY_DIFFS"
    /\ changed' = ApplyDiffs(diffs, tool)
    /\ calls' = Called("apply")
    /\ pc' = "APPLY_DIFFS_RETURNED"
    /\ applied' = changed'
    /\ UNCHANGED <<extractVars, arguments, loopLocals, diffs, tool, validationVars, result,
                   attemptLog>>

ApplyNext == CallApplyDiffs

ApplySpec == ApplyInit /\ [][ApplyNext]_vars

(* ----------------------- _run_validation on its own -------------------- *)

\* _run_validation is about to be called with some command list and budget,
\* where command i will do behs[i]
ValidationInit ==
    /\ pc = "RUN_VALIDATION"
    /\ max_iterations = 0
    /\ validate_commands_override = None
    /\ plan_id = None
    /\ milestones = <<>>
    /\ ordered = <<>>
    /\ mi = 0
    /\ attempt = 0
    /\ iterations = 0
    /\ validate_commands \in CommandLists
    /\ behs \in [1..Len(validate_commands) -> Behaviours]
    /\ budget_seconds \in Budgets
    /\ per_cmd_timeout = 0
    /\ text = <<>>
    /\ candidate = None
    /\ extracted = None
    /\ diffs = <<>>
    /\ tool = <<>>
    /\ changed = <<>>
    /\ all_changed_files = <<>>
    /\ overall_pass = FALSE
    /\ results = <<>>
    /\ suggested = "done"
    /\ result = None
    /\ calls = [plan |-> 0, patch |-> 0, apply |-> 0, verify |-> 0]
    /\ attemptLog = <<>>
    /\ applied = <<>>

\* the call returns
CallRunValidation ==
    /\ pc = "RUN_VALIDATION"
    /\ LET v == RunValidation(validate_commands, behs, budget_seconds)
       IN /\ overall_pass' = v.overall
          /\ results' = v.results
          /\ suggested' = v.suggested
    /\ per_cmd_timeout' = PerCmdTimeout(validate_commands, budget_seconds)
    /\ calls' = Called("verify")
    /\ pc' = "RUN_VALIDATION_RETURNED"
    /\ UNCHANGED <<extractVars, arguments, loopLocals, applyVars, behs, budget_seconds,
                   result, history>>

ValidationNext == CallRunValidation

ValidationSpec == ValidationInit /\ [][ValidationNext]_vars

(* ------------------------ _extract_json on its own --------------------- *)

\* _extract_json is about to be called with some text
ExtractInit ==
    /\ pc = "EXTRACT_JSON"
    /\ max_iterations = 0
    /\ validate_commands_override = None
    /\ plan_id = None
    /\ milestones = <<>>
    /\ ordered = <<>>
    /\ mi = 0
    /\ attempt = 0
    /\ iterations = 0
    /\ validate_commands = <<>>
    /\ diffs = <<>>
    /\ tool = <<>>
    /\ changed = <<>>
    /\ all_changed_files = <<>>
    /\ overall_pass = FALSE
    /\ results = <<>>
    /\ suggested = "done"
    /\ result = None
    /\ behs = <<>>
    /\ budget_seconds = 120
    /\ per_cmd_timeout = 0
    /\ text \in Texts
    /\ candidate = None
    /\ extracted = None
    /\ calls = [plan |-> 0, patch |-> 0, apply |-> 0, verify |-> 0]
    /\ attemptLog = <<>>
    /\ applied = <<>>

\* the call returns
CallExtractJson ==
    /\ pc = "EXTRACT_JSON"
    /\ LET e == ExtractJson(text)
       IN /\ candidate' = e.candidate
          /\ extracted' = e.value
    /\ pc' = "EXTRACT_JSON_RETURNED"
    /\ UNCHANGED <<text, arguments, loopLocals, applyVars, validationVars,
                   result, calls, history>>

ExtractNext == CallExtractJson

ExtractSpec == ExtractInit /\ [][ExtractNext]_vars

(* ------------------------------- properties ---------------------------- *)

\* run_loop has returned
Returned == result # None

\* run_loop has returned an error result
Aborted == "error" \in DOMAIN result

\* run_loop has returned the final summary
DoneNoError == pc = "DONE" /\ Returned /\ ~Aborted

\* a response object carries an error marker: an `error` key with a reason
HasErrorMarker(obj) == obj.error # None /\ obj.error[1] # ""

\* the planning response was accepted and the milestone loop entered
PlanAccepted == pc \notin {"START", "PLANNING"} /\ ordered # <<>>

\* C1: whatever the plan, max_iterations, the provider responses, the apply
\* results and the verification outcomes, run_loop eventually returns, in
\* DONE or in ABORTED, as long as every call it waits for returns.
C1_Terminates == <>(pc \in {"DONE", "ABORTED"} /\ Returned)

\* a run over two milestones that used up the global budget and returned
C1_Witness ==
    /\ pc = "DONE"
    /\ max_iterations >= 2
    /\ Len(ordered) >= 2
    /\ iterations > max_iterations
    /\ calls.verify >= 1

\* C2: the patch requests of a whole run, skipped attempts included, never
\* number more than max_iterations, and once the global counter exceeds
\* max_iterations no further patch request is sent for any milestone.
C2_GlobalBudget ==
    /\ [](calls.patch <= max_iterations /\ Len(attemptLog) = calls.patch)
    /\ [][iterations > max_iterations => calls'.patch = calls.patch]_vars

\* the budget was spent over two milestones, one attempt of which was
\* skipped, and a later attempt was refused
C2_Witness ==
    /\ max_iterations >= 2
    /\ calls.patch = max_iterations
    /\ iterations > max_iterations
    /\ Cardinality(Range(attemptLog)) >= 2
    /\ calls.apply < calls.patch

\* C3: a failed planning request, a planning response without object or
\* with an error marker, and a failed patch request each make run_loop
\* return an error result in that very step; after an error result no
\* provider request, change application or verification happens; a planning
\* abort comes before any patch, apply or verify step.
C3_AbortIsImmediate ==
    /\ [][/\ PlanRequestFails => Aborted' /\ pc' = "ABORTED"
          /\ PatchRequestFails => Aborted' /\ pc' = "ABORTED"
          /\ \A ext \in PlanExtractions :
                (Plan(ext) /\ (ext = None \/ HasErrorMarker(ext[1])))
                    => Aborted' /\ pc' = "ABORTED"
          /\ Aborted => (Aborted' /\ calls' = calls /\ applied' = applied)]_vars
    /\ []((Aborted /\ result.error # "Patch step failed")
            => calls.patch = 0 /\ calls.apply = 0 /\ calls.verify = 0)

\* a patch request failed after changes had been applied and verified, with
\* a milestone still to come
C3_Witness ==
    /\ pc = "ABORTED"
    /\ Aborted
    /\ result.error = "Patch step failed"
    /\ calls.verify >= 1
    /\ mi < Len(ordered)

\* C4: a planning response that extracts to an object without error marker
\* and without milestones (absent or empty, the object without any key
\* included) is accepted with exactly one synthetic milestone whose scope is
\* the goal; the milestone list is never empty once iteration has started.
C4_SyntheticMilestone ==
    /\ [][\A ext \in PlanExtractions :
            (/\ Plan(ext)
             /\ ext # None
             /\ ~HasErrorMarker(ext[1])
             /\ (ext[1].milestones = None \/ ext[1].milestones[1] = <<>>))
            => /\ pc' = "MILESTONE_ITERATION"
               /\ Len(ordered') = 1
               /\ Scope(ordered'[1]) = Some(Goal)]_vars
    /\ [](pc \in {"MILESTONE_ITERATION", "ATTEMPT", "PATCH", "APPLY",
                  "VALIDATE", "DONE"} => milestones # <<>> /\ ordered # <<>>)

\* position in the plan of the milestone with scope id `id`
PosOf(id) == CHOOSE i \in 1..Len(milestones) : milestones[i].id = Some(id)

\* order value of the milestone with scope id `id`, 0 when it has none
OrderOf(id) ==
    LET m == milestones[PosOf(id)] IN IF m.order = None THEN 0 ELSE m.order[1]

\* milestone a does not come after milestone b: smaller order value, or the
\* same value and not later in the plan
NotAfter(a, b) ==
    \/ OrderOf(a) < OrderOf(b)
    \/ OrderOf(a) = OrderOf(b) /\ PosOf(a) <= PosOf(b)

\* C5: milestones are taken in ascending order value, a missing order
\* counting as 0 and ties going by position in the plan, and one after the
\* other: no patch request for a milestone follows a patch request for a
\* milestone later in that ordering.
C5_MilestoneOrder ==
    /\ Len(ordered) = Len(milestones)
    /\ \A i, j \in 1..Len(ordered) :
          i < j => /\ ordered[i] # ordered[j]
                   /\ ordered[i] \in Range(milestones)
                   /\ NotAfter(ScopeId(ordered[i]), ScopeId(ordered[j]))
    /\ \A i, j \in 1..Len(attemptLog) :
          i < j => NotAfter(attemptLog[i], attemptLog[j])

\* the plan lists a milestone of order 1 before one without order: the one
\* without order was attempted first
C5_Witness ==
    /\ Len(milestones) = 2
    /\ milestones[1].order = Some(1)
    /\ milestones[2].order = None
    /\ Len(attemptLog) >= 2
    /\ attemptLog[1] = "p2"
    /\ attemptLog[Len(attemptLog)] = "p1"

\* a patch request raised
PatchFailed == Aborted /\ result.error = "Patch step failed"

\* C6: once the plan is accepted, a run without a failing patch request ends
\* in DONE with a result without error key, whatever the patch responses,
\* the apply results and the verification outcomes were and even when the
\* budget ran out before every milestone was attempted.
C6_DoneUnlessPatchFails ==
    /\ PlanAccepted ~> (DoneNoError \/ PatchFailed)
    /\ []((PlanAccepted /\ Returned /\ ~PatchFailed) => DoneNoError)

\* DONE after two attempts whose changes did not apply and whose
\* verification failed, with the second milestone never attempted
C6_Witness ==
    /\ DoneNoError
    /\ calls.apply >= 2
    /\ all_changed_files = <<>>
    /\ calls.verify >= 2
    /\ ~overall_pass
    /\ Len(ordered) >= 2
    /\ ScopeId(ordered[2]) \notin Range(attemptLog)

\* index of the first occurrence of x in xs
FirstIndex(xs, x) == CHOOSE i \in 1..Len(xs) : xs[i] = x /\ \A j \in 1..(i - 1) : xs[j] # x

\* C7: in DONE the file_list holds exactly the paths the change applications
\* of the run reported as applied, each once, in the order of their first
\* successful application.
C7_FileList ==
    pc = "DONE" =>
        LET fl == result.file_list
        IN /\ Range(fl) = Range(applied)
           /\ \A i, j \in 1..Len(fl) :
                 i < j => /\ fl[i] # fl[j]
                          /\ FirstIndex(applied, fl[i]) < FirstIndex(applied, fl[j])

\* one attempt applied b, the next one a and b again: the list is b, a
C7_Witness ==
    /\ pc = "DONE"
    /\ applied = <<"b", "a", "b">>
    /\ result.file_list = <<"b", "a">>

\* item i of diffs has a non-empty path and a non-empty patch body and
\* patch(1) exited with status 0 on it
AppliedItem(i) ==
    /\ diffs[i].path # None /\ diffs[i].path[1] # ""
    /\ diffs[i].unified_diff # None /\ diffs[i].unified_diff[1] # ""
    /\ tool[i] = "exit0"

\* the k-th smallest element of a set of numbers
KthOf(S, k) == CHOOSE i \in S : Cardinality({j \in S : j < i}) = k - 1

\* C8: _apply_diffs returns, in input order, exactly the paths of the items
\* with a non-empty path and patch body on which patch(1) exited with 0;
\* an empty, failing, timed-out or not invocable item neither raises nor
\* keeps the later items from being processed; no items, no paths.
C8_ApplyDiffs ==
    pc = "APPLY_DIFFS_RETURNED" =>
        LET good == {i \in 1..Len(diffs) : AppliedItem(i)}
        IN /\ Len(changed) = Cardinality(good)
           /\ \A k \in 1..Len(changed) : changed[k] = diffs[KthOf(good, k)].path[1]
           /\ diffs = <<>> => changed = <<>>

\* patch(1) timed out on the first item and applied the second
C8_Witness ==
    /\ pc = "APPLY_DIFFS_RETURNED"
    /\ Len(diffs) = 2
    /\ ~ItemSkipped(diffs[1])
    /\ tool[1] = "TimeoutExpired"
    /\ AppliedItem(2)
    /\ changed = <<diffs[2].path[1]>>

\* command i did not finish within the timeout its list and budget give it
TimedOut(i) ==
    behs[i].duration > PerCmdTimeout(validate_commands, budget_seconds)

\* C9: _run_validation runs every command in order, also after a failed or
\* timed-out one, and returns one record per command in that order; the
\* record of a timed-out command has exit status None, pass False and the
\* fixed timed-out summary.
C9_OneRecordPerCommand ==
    pc = "RUN_VALIDATION_RETURNED" =>
        /\ Len(results) = Len(validate_commands)
        /\ \A i \in 1..Len(results) :
              /\ results[i].command = validate_commands[i]
              /\ TimedOut(i) => /\ results[i].exit_code = None
                                /\ results[i].pass = FALSE
                                /\ results[i].failure_summary = Some(TimedOutSummary)
              /\ ~TimedOut(i) => results[i].exit_code = Some(behs[i].returncode)

\* the first command timed out, the second ran and failed
C9_Witness ==
    /\ pc = "RUN_VALIDATION_RETURNED"
    /\ Len(validate_commands) = 2
    /\ TimedOut(1)
    /\ results[1].exit_code = None
    /\ results[2].exit_code = Some(1)

\* C10: the overall pass is the conjunction of the pass flags, a command
\* passing exactly when it exits with 0 within its timeout; without
\* commands the overall pass is true and there are no records.
C10_OverallPass ==
    pc = "RUN_VALIDATION_RETURNED" =>
        /\ \A i \in 1..Len(validate_commands) :
              results[i].pass = (~TimedOut(i) /\ behs[i].returncode = 0)
        /\ overall_pass = (\A i \in 1..Len(validate_commands) :
                              ~TimedOut(i) /\ behs[i].returncode = 0)
        /\ validate_commands = <<>> => overall_pass /\ results = <<>>

\* one command passed and one failed: the overall pass is false
C10_Witness ==
    /\ pc = "RUN_VALIDATION_RETURNED"
    /\ Len(validate_commands) = 2
    /\ results[1].pass
    /\ ~results[2].pass
    /\ ~overall_pass

\* the quotient of b by n rounded down: the q with q * n <= b < (q + 1) * n
FloorQuotient(b, n) == CHOOSE q \in 0..b : q * n <= b /\ b < (q + 1) * n

\* C11: every command of a non-empty list is run with the timeout
\* max(10, budget // count), the quotient rounded down (budget 120 and three
\* commands give 40): a command is recorded as timed out exactly when it runs
\* longer than that.  For the empty list the timeout value is 60 and no
\* command is run.
C11_PerCommandTimeout ==
    /\ PerCmdTimeout(SubSeq(CommandNames, 1, 3), 120) = 40
    /\ pc = "RUN_VALIDATION_RETURNED" =>
          LET count == Len(validate_commands)
              quotient == FloorQuotient(budget_seconds, count)
          IN /\ count = 0 => per_cmd_timeout = 60 /\ results = <<>>
             /\ count > 0 =>
                   /\ per_cmd_timeout = IF quotient >= 10 THEN quotient ELSE 10
                   /\ \A i \in 1..count :
                         (results[i].exit_code = None)
                             <=> (behs[i].duration > per_cmd_timeout)

\* budget 25 and two commands: each got 12 seconds, so the one that takes 30
\* timed out and the one that takes 1 did not
C11_Witness ==
    /\ pc = "RUN_VALIDATION_RETURNED"
    /\ budget_seconds = 25
    /\ Len(validate_commands) = 2
    /\ per_cmd_timeout = 12
    /\ behs[1].duration = 30 /\ results[1].exit_code = None
    /\ behs[2].duration = 1 /\ results[2].exit_code # None

\* C12: a command that finished within its timeout with more than 2048
\* characters of output has an excerpt of exactly 2048 characters, the
\* truncation marker counted when there is one; with at most 2048 characters
\* of output the excerpt is the output.
C12_ExcerptLength ==
    pc = "RUN_VALIDATION_RETURNED" =>
        \A i \in 1..Len(validate_commands) :
            ~TimedOut(i) =>
                /\ Len(behs[i].out) > 2048 => Len(results[i].log_excerpt) = 2048
                /\ Len(behs[i].out) <= 2048 => results[i].log_excerpt = behs[i].out

\* a failed command with 2049 characters of output: its excerpt carries the
\* marker and is 2048 characters long; a command with exactly 2048
\* characters of output keeps them all
C12_Witness ==
    /\ pc = "RUN_VALIDATION_RETURNED"
    /\ Len(validate_commands) = 2
    /\ ~TimedOut(1) /\ ~TimedOut(2)
    /\ behs[1].returncode = 1
    /\ Len(behs[1].out) = 2049
    /\ SubSeq(results[1].log_excerpt, 1, Len(TruncatedMarker)) = TruncatedMarker
    /\ Len(results[1].log_excerpt) = 2048
    /\ Len(behs[2].out) = 2048
    /\ results[2].log_excerpt = behs[2].out

\* the excerpt e starts with "... (truncated)\n"
BeginsWithMarker(e) ==
    /\ Len(e) >= Len(TruncatedMarker)
    /\ SubSeq(e, 1, Len(TruncatedMarker)) = TruncatedMarker

\* C13 as stated: whenever the output of a finished command exceeds 2048
\* characters its excerpt begins with the truncation marker, whether the
\* command passed or failed.
C13_MarkerWheneverLong ==
    pc = "RUN_VALIDATION_RETURNED" =>
        \A i \in 1..Len(validate_commands) :
            (~TimedOut(i) /\ Len(behs[i].out) > 2048) =>
                BeginsWithMarker(results[i].log_excerpt)

\* C13 as amended: when the output of a finished command exceeds 2048
\* characters, the excerpt begins with the truncation marker if the command
\* failed (non-zero exit status), and is exactly the last 2048 characters of
\* the output, nothing put before them, if the command passed.
C13_MarkerWhenFailedAndLong ==
    pc = "RUN_VALIDATION_RETURNED" =>
        \A i \in 1..Len(validate_commands) :
            (~TimedOut(i) /\ Len(behs[i].out) > 2048) =>
                /\ behs[i].returncode # 0 =>
                      BeginsWithMarker(results[i].log_excerpt)
                /\ behs[i].returncode = 0 =>
                      results[i].log_excerpt =
                          SubSeq(behs[i].out, Len(behs[i].out) - 2047,
                                 Len(behs[i].out))

\* two commands with 2049 characters of output each: the one that exited
\* with 2 has the marker, the one that exited with 0 has none
C13_Witness ==
    /\ pc = "RUN_VALIDATION_RETURNED"
    /\ Len(validate_commands) = 2
    /\ ~TimedOut(1) /\ ~TimedOut(2)
    /\ Len(behs[1].out) = 2049 /\ Len(behs[2].out) = 2049
    /\ behs[1].returncode = 2 /\ behs[2].returncode = 0
    /\ BeginsWithMarker(results[1].log_excerpt)
    /\ ~BeginsWithMarker(results[2].log_excerpt)

\* the positions of the braces of t
Braces(t) == {i \in 1..Len(t) : t[i] = "{" \/ t[i] = "}"}

\* how many of the positions a..e of t hold the lexeme ch
CountIn(t, a, e, ch) == Cardinality({i \in a..e : t[i] = ch})

\* t[a..b] is one balanced region: it opens at a, stays open up to b and
\* closes at b
BalancedRegion(t, a, b) ==
    /\ t[a] = "{"
    /\ t[b] = "}"
    /\ \A e \in a..(b - 1) : CountIn(t, a, e, "{") > CountIn(t, a, e, "}")
    /\ CountIn(t, a, b, "{") = CountIn(t, a, b, "}")

\* where the braces of t begin and end
FirstBrace(t) == SetMin(Braces(t))

LastBrace(t) == CHOOSE i \in Braces(t) : \A j \in Braces(t) : j <= i

\* t is prose without braces, one balanced region, prose without braces
OneRegion(t) ==
    /\ Braces(t) # {}
    /\ BalancedRegion(t, FirstBrace(t), LastBrace(t))

\* C14: for a text that holds exactly one balanced {...} region, nested
\* braces allowed, between prose without braces (fences allowed),
\* _extract_json hands exactly that region to the decoder and returns what
\* it decodes to; a text that is the serialized form of an object gives that
\* object back.
C14_ExtractsTheRegion ==
    pc = "EXTRACT_JSON_RETURNED" =>
        /\ OneRegion(text) =>
              LET region == SubSeq(text, FirstBrace(text), LastBrace(text))
              IN /\ candidate = Some(region)
                 /\ extracted = JsonLoads(region)
        /\ JsonLoads(text) = Some(text) => extracted = Some(text)

\* the braces of t do not pair up: some "}" has no "{" before it to close,
\* or some "{" is left open at the end
Unbalanced(t) ==
    \/ \E e \in 1..Len(t) : CountIn(t, 1, e, "}") > CountIn(t, 1, e, "{")
    \/ CountIn(t, 1, Len(t), "{") # CountIn(t, 1, Len(t), "}")

\* C15 as stated: for a text whose braces are unbalanced, and for a text
\* without any "{", _extract_json returns None.
C15_NoneWhenUnbalanced ==
    pc = "EXTRACT_JSON_RETURNED" =>
        ((Unbalanced(text) \/ "{" \notin Range(text)) => extracted = None)

\* the text the brace scan runs on: the body of the fenced block the
\* pattern matches, the stripped text without such a block
Scanned(t) ==
    LET m == FenceSearch(Strip(t)) IN IF m # None THEN m[1] ELSE Strip(t)

\* the first "{" of t is never closed: from it on, every stretch of t holds
\* more "{" than "}"
FirstBraceNeverCloses(t) ==
    /\ "{" \in Range(t)
    /\ LET a == SetMin({i \in 1..Len(t) : t[i] = "{"})
       IN \A e \in a..Len(t) : CountIn(t, a, e, "{") > CountIn(t, a, e, "}")

\* C15 as amended: for a text without any "{", and for a text whose first
\* "{" is never closed by a matching "}" (in the body of the fenced block
\* when the fence pattern matches, in the whole text otherwise),
\* _extract_json hands nothing to the decoder and returns None.
C15_NoneWhenNeverClosed ==
    pc = "EXTRACT_JSON_RETURNED" =>
        (("{" \notin Range(text) \/ FirstBraceNeverCloses(Scanned(text)))
            => candidate = None /\ extracted = None)

\* "{ { }" with something around it: the inner region closes, the first
\* brace never does, and None is returned
C15_Witness ==
    /\ pc = "EXTRACT_JSON_RETURNED"
    /\ "}" \in Range(text)
    /\ "fence" \notin Range(text)
    /\ FirstBraceNeverCloses(text)
    /\ extracted = None

\* a response object proposes no changes: its diffs are absent or empty
NoProposedChanges(obj) == obj.diffs = None \/ obj.diffs[1] = <<>>

\* C16: a patch response that is an object without error marker and without
\* proposed changes (diffs absent or empty) leads to no change application
\* and no verification, adds nothing to the changed-file list and ends the
\* attempts of its milestone; once the attempts of a milestone have ended
\* the loop goes on to the next milestone or finishes, so the next patch
\* request is for the next milestone.
C16_EmptyPatchEndsMilestone ==
    [][/\ \A ext \in PatchExtractions :
             (/\ Patch(ext)
              /\ ext # None
              /\ ~HasErrorMarker(ext[1])
              /\ NoProposedChanges(ext[1]))
                 => /\ pc' = "MILESTONE_ITERATION"
                    /\ all_changed_files' = all_changed_files
                    /\ applied' = applied
                    /\ calls'.apply = calls.apply
                    /\ calls'.verify = calls.verify
       /\ pc = "MILESTONE_ITERATION" => (mi' = mi + 1 \/ pc' = "DONE")]_vars

\* C17: a patch response without object or with an error marker leads to no
\* change application and no verification and leaves the changed-file list
\* as it was; run_loop neither returns nor leaves the milestone, and the next
\* attempt, which is made whenever the per-milestone and the global bound
\* allow one, is a patch request for the same milestone.
C17_SkippedAttemptRetries ==
    [][/\ \A ext \in PatchExtractions :
             (Patch(ext) /\ (ext = None \/ HasErrorMarker(ext[1])))
                 => /\ pc' = "ATTEMPT"
                    /\ mi' = mi
                    /\ result' = None
                    /\ all_changed_files' = all_changed_files
                    /\ applied' = applied
                    /\ calls'.apply = calls.apply
                    /\ calls'.verify = calls.verify
       /\ (pc = "ATTEMPT" /\ attempt < max_iterations
                          /\ iterations < max_iterations)
             => pc' = "PATCH" /\ mi' = mi /\ ordered' = ordered]_vars

\* the first patch response of the first milestone was skipped: nothing has
\* been applied or verified, and the second request for that milestone is
\* about to be sent
C17_Witness ==
    /\ pc = "PATCH"
    /\ mi = 1
    /\ attempt = 2
    /\ attemptLog = <<ScopeId(milestone)>>
    /\ calls.patch = 1
    /\ calls.apply = 0
    /\ calls.verify = 0
    /\ all_changed_files = <<>>

\* C18: when a verification passes overall (every command exits with 0
\* within its timeout) the attempts of the milestone end and the loop goes on
\* to the next milestone; when it does not, the suggested action is "fix",
\* run_loop neither returns nor leaves the milestone, and the next attempt,
\* made whenever the bounds allow one, is a patch request for the same
\* milestone with the same scope.
C18_VerificationDecides ==
    [][/\ \A b \in [1..Len(validate_commands) -> LoopBehaviours] :
             Validate(b) =>
                 /\ overall_pass' =
                        (\A i \in 1..Len(validate_commands) :
                            /\ b[i].returncode = 0
                            /\ b[i].duration <= 120 \div Len(validate_commands))
                 /\ overall_pass' => pc' = "MILESTONE_ITERATION"
                 /\ ~overall_pass' => /\ suggested' = "fix"
                                      /\ pc' = "ATTEMPT"
                                      /\ mi' = mi
                                      /\ ordered' = ordered
                                      /\ result' = None
       /\ pc = "MILESTONE_ITERATION" => (mi' = mi + 1 \/ pc' = "DONE")
       /\ (pc = "ATTEMPT" /\ attempt < max_iterations
                          /\ iterations < max_iterations)
             => /\ pc' = "PATCH"
                /\ mi' = mi
                /\ Scope(ordered'[mi']) = Scope(ordered[mi])]_vars

\* the first attempt of the first milestone was applied and its verification
\* failed: the second patch request for that milestone is about to be sent
C18_Witness ==
    /\ pc = "PATCH"
    /\ mi = 1
    /\ attempt = 2
    /\ attemptLog = <<ScopeId(milestone)>>
    /\ calls.verify = 1
    /\ ~overall_pass
    /\ suggested = "fix"

\* C19 as stated: for every non-empty command list and every budget, the
\* per-command timeouts add up to at most the budget.
C19_TimeoutsWithinBudget ==
    (pc = "RUN_VALIDATION_RETURNED" /\ validate_commands # <<>>) =>
        Len(validate_commands) * per_cmd_timeout <= budget_seconds

\* C19 as amended: for every non-empty command list, the per-command
\* timeouts add up to at most the budget when the budget allows 10 seconds
\* per command (budget >= 10 * count); under a smaller budget every command
\* still gets 10 seconds and the timeouts add up to 10 * count.
C19_TimeoutsWithinBudgetOrFloor ==
    (pc = "RUN_VALIDATION_RETURNED" /\ validate_commands # <<>>) =>
        LET count == Len(validate_commands)
        IN /\ budget_seconds >= 10 * count =>
                 count * per_cmd_timeout <= budget_seconds
           /\ budget_seconds < 10 * count =>
                 count * per_cmd_timeout = 10 * count

\* two commands under a budget of 25: 12 seconds each, 24 in all
C19_Witness ==
    /\ pc = "RUN_VALIDATION_RETURNED"
    /\ Len(validate_commands) = 2
    /\ budget_seconds = 25
    /\ Len(validate_commands) * per_cmd_timeout = 24

\* the excerpt e without the truncation marker it may begin with
WithoutMarker(e) ==
    IF BeginsWithMarker(e) THEN SubSeq(e, Len(TruncatedMarker) + 1, Len(e))
    ELSE e

\* s is what t ends with
IsSuffix(s, t) ==
    /\ Len(s) <= Len(t)
    /\ SubSeq(t, Len(t) - Len(s) + 1, Len(t)) = s

\* C20: the excerpt of a command that finished within its timeout, passing
\* or failing, keeps the end of the output: without its truncation marker it
\* is a suffix of the output, and the last character of a non-empty output
\* is the last character of the excerpt.
C20_ExcerptKeepsTheEnd ==
    pc = "RUN_VALIDATION_RETURNED" =>
        \A i \in 1..Len(validate_commands) :
            ~TimedOut(i) =>
                LET out == behs[i].out
                    e == results[i].log_excerpt
                IN /\ IsSuffix(WithoutMarker(e), out)
                   /\ out # <<>> => (e # <<>> /\ e[Len(e)] = out[Len(out)])

====
